---- MODULE Spec2Model ----
(***************************************************************************)
(* Video-to-cache placement: construction heuristics, scorer, validator   *)
(* and local search of main.py, main_2_otherOperators.py and ushtrime.py. *)
(*                                                                         *)
(* Python lists are functions over 0..n-1, sets are sets, a dict is a      *)
(* sequence of <<key, value>> pairs in insertion order (keys distinct).    *)
(* A call that can raise returns a record whose exc field is "None" or     *)
(* the name of the exception.                                              *)
(***************************************************************************)
EXTENDS Integers, Sequences, FiniteSets, TLC

(* ---------------- bounds of the explored inputs ---------------- *)
NumVideos == 2
MaxCaches == 2
Capacity == 2
MaxNegSize == 1
MaxSize == 2
MaxIterations == 1

(* ---------------- Python helpers ---------------- *)
range(n) == 0 .. (n - 1)

None == -1

Min2(a, b) == IF a <= b THEN a ELSE b

Max2(a, b) == IF a >= b THEN a ELSE b

(* Python's // : floor division, the divisor is never 0 where it is used *)
FloorDiv(a, b) ==
    IF b > 0
    THEN (IF a >= 0 THEN a \div b ELSE -(((-a) + b - 1) \div b))
    ELSE (IF a <= 0 THEN (-a) \div (-b) ELSE -((a + (-b) - 1) \div (-b)))

(* (total * 1000) // n on Python's unbounded integers: the quotient and   *)
(* the remainder of total are scaled separately, which gives the same      *)
(* value and keeps every intermediate small                                *)
Scaled(total, n) ==
    LET q == FloorDiv(total, n)
        r == total - q * n
    IN  1000 * q + FloorDiv(1000 * r, n)

(* list[i] with Python's negative indexing; IndexError outside -n..n-1 *)
InIndex(n, i) == i >= -n /\ i < n

PyIndex(lst, n, i) == IF i >= 0 THEN lst[i] ELSE lst[n + i]

(* sum(video_sizes[vid] for vid in videos), every vid a legal index *)
RECURSIVE total_size(_, _, _)
total_size(videos, video_sizes, n) ==
    IF videos = {} THEN 0
    ELSE LET vid == CHOOSE y \in videos : TRUE
         IN  PyIndex(video_sizes, n, vid) + total_size(videos \ {vid}, video_sizes, n)

(* dict lookups on a sequence of <<key, value>> pairs *)
Keys(d) == { d[i][1] : i \in 1 .. Len(d) }

Get(d, k) == LET i == CHOOSE j \in 1 .. Len(d) : d[j][1] = k IN d[i][2]

(* sorted(range(n), key=...): stable; less is the set of pairs <<a, b>>   *)
(* with key(a) < key(b)                                                    *)
RECURSIVE SortedFrom(_, _)
SortedFrom(S, less) ==
    IF S = {} THEN << >>
    ELSE LET first == CHOOSE a \in S :
                        \A b \in S \ {a} :
                            <<a, b>> \in less \/ (<<b, a>> \notin less /\ a < b)
         IN  << first >> \o SortedFrom(S \ {first}, less)

(* [{'videos': set(), 'remaining_capacity': X} for _ in range(C)] *)
EmptyCaches(C, X) == [c \in range(C) |-> [videos |-> {}, remaining_capacity |-> X]]

Place(cache_servers, cache_id, vid, video_sizes) ==
    [cache_servers EXCEPT
        ![cache_id].videos = @ \cup {vid},
        ![cache_id].remaining_capacity = @ - video_sizes[vid]]

(* for cache_id in <order>: if size <= remaining: place; break *)
RECURSIVE FirstFit(_, _, _, _)
FirstFit(cache_servers, order, vid, video_sizes) ==
    IF order = << >> THEN cache_servers
    ELSE IF video_sizes[vid] <= cache_servers[Head(order)].remaining_capacity
         THEN Place(cache_servers, Head(order), vid, video_sizes)
         ELSE FirstFit(cache_servers, Tail(order), vid, video_sizes)

Ascending(n) == [i \in 1 .. n |-> i - 1]

RECURSIVE FirstFitAll(_, _, _, _)
FirstFitAll(cache_servers, sorted_videos, C, video_sizes) ==
    IF sorted_videos = << >> THEN cache_servers
    ELSE FirstFitAll(FirstFit(cache_servers, Ascending(C), Head(sorted_videos), video_sizes),
                     Tail(sorted_videos), C, video_sizes)

(* ---------------- main.py: basic_cache_placement ---------------- *)
(* the placement without the sort: the videos are taken in id order *)
basic_cache_placement_unsorted(requests, endpoints, video_sizes, C, X) ==
    FirstFitAll(EmptyCaches(C, X), Ascending(Cardinality(DOMAIN video_sizes)),
                C, video_sizes)

basic_cache_placement(requests, endpoints, video_sizes, C, X) ==
    LET vids == DOMAIN video_sizes
        less == { p \in vids \X vids : video_sizes[p[1]] < video_sizes[p[2]] }
        sorted_videos == SortedFrom(vids, less)
    IN  FirstFitAll(EmptyCaches(C, X), sorted_videos, C, video_sizes)

(* main.py process_file: "Largest video first strategy" *)
largest_first(video_sizes, V, C, X) ==
    LET less == { p \in range(V) \X range(V) : (-video_sizes[p[1]]) < (-video_sizes[p[2]]) }
        sorted_videos2 == SortedFrom(range(V), less)
    IN  FirstFitAll(EmptyCaches(C, X), sorted_videos2, C, video_sizes)

(* ---------------- main.py: preprocess_requests ---------------- *)
RECURSIVE MinLatency(_)
MinLatency(cache_latencies) ==
    IF Len(cache_latencies) = 1 THEN cache_latencies[1][2]
    ELSE Min2(cache_latencies[1][2], MinLatency(Tail(cache_latencies)))

RECURSIVE StatsOf(_, _, _)
StatsOf(vid, requests, endpoints) ==
    IF requests = << >>
    THEN [total_demand |-> 0, endpoints |-> {}, latency_potential |-> 0]
    ELSE LET n    == Len(requests)
             r    == requests[n]
             rest == StatsOf(vid, SubSeq(requests, 1, n - 1), endpoints)
             endpoint    == endpoints[r[2]]
             dc_latency  == endpoint.data_center_latency
             min_latency == IF endpoint.cache_latencies # << >>
                            THEN MinLatency(endpoint.cache_latencies)
                            ELSE dc_latency
         IN  IF r[1] # vid THEN rest
             ELSE [total_demand |-> rest.total_demand + r[3],
                   endpoints |-> rest.endpoints \cup {r[2]},
                   latency_potential |-> rest.latency_potential
                                           + (dc_latency - min_latency) * r[3]]

preprocess_requests(requests, endpoints, video_sizes) ==
    [vid \in DOMAIN video_sizes |-> StatsOf(vid, requests, endpoints)]

(* ---------------- main.py: find_optimal_cache ---------------- *)
(* the (endpoint_id, cache_id, latency) triples in the order the two       *)
(* nested loops visit them: the endpoint set in ascending order (CPython's *)
(* order for a set of small ints), each dict in insertion order            *)
RECURSIVE Visits(_, _)
Visits(endpoint_ids, endpoints) ==
    IF endpoint_ids = {} THEN << >>
    ELSE LET endpoint_id == CHOOSE e \in endpoint_ids : \A f \in endpoint_ids : e <= f
             lat == endpoints[endpoint_id].cache_latencies
         IN  [i \in 1 .. Len(lat) |-> << endpoint_id, lat[i][1], lat[i][2] >>]
             \o Visits(endpoint_ids \ {endpoint_id}, endpoints)

(* score = latency_improvement * (total_demand / len(endpoints)) is kept   *)
(* as its numerator over the common denominator len(endpoints), so that    *)
(* best_score = -1 is the numerator -len(endpoints)                        *)
RECURSIVE FindLoop(_, _, _, _, _, _, _)
FindLoop(visits, best_cache, best_num, video_size, endpoints, video_stats, cache_servers) ==
    IF visits = << >> THEN [exc |-> "None", best_cache |-> best_cache]
    ELSE LET endpoint == endpoints[Head(visits)[1]]
             cache_id == Head(visits)[2]
             latency  == Head(visits)[3]
             cache    == cache_servers[cache_id]
             latency_improvement == endpoint.data_center_latency - latency
             num == latency_improvement * video_stats.total_demand
         IN  IF ~(video_size <= cache.remaining_capacity)
             THEN FindLoop(Tail(visits), best_cache, best_num, video_size,
                           endpoints, video_stats, cache_servers)
             ELSE IF num > best_num
             THEN FindLoop(Tail(visits), cache_id, num, video_size,
                           endpoints, video_stats, cache_servers)
             ELSE IF num = best_num
             THEN (* cache_servers[best_cache] with best_cache = None *)
                  IF best_cache = None
                  THEN [exc |-> "TypeError", best_cache |-> None]
                  ELSE IF cache.remaining_capacity
                            > cache_servers[best_cache].remaining_capacity
                  THEN FindLoop(Tail(visits), cache_id, num, video_size,
                                endpoints, video_stats, cache_servers)
                  ELSE FindLoop(Tail(visits), best_cache, best_num, video_size,
                                endpoints, video_stats, cache_servers)
             ELSE FindLoop(Tail(visits), best_cache, best_num, video_size,
                           endpoints, video_stats, cache_servers)

find_optimal_cache(vid, video_size, endpoints, video_stats, cache_servers) ==
    FindLoop(Visits(video_stats.endpoints, endpoints), None,
             -Cardinality(video_stats.endpoints),
             video_size, endpoints, video_stats, cache_servers)

(* ---------------- main.py: enhanced_cache_placement ---------------- *)
RECURSIVE EnhancedLoop(_, _, _, _, _)
EnhancedLoop(cache_servers, sorted_videos, endpoints, video_stats, video_sizes) ==
    IF sorted_videos = << >> THEN [exc |-> "None", cache_servers |-> cache_servers]
    ELSE LET vid  == Head(sorted_videos)
             best == find_optimal_cache(vid, video_sizes[vid], endpoints,
                                        video_stats[vid], cache_servers)
         IN  IF best.exc # "None"
             THEN [exc |-> best.exc, cache_servers |-> cache_servers]
             ELSE IF best.best_cache # None
             THEN EnhancedLoop(Place(cache_servers, best.best_cache, vid, video_sizes),
                               Tail(sorted_videos), endpoints, video_stats, video_sizes)
             ELSE EnhancedLoop(cache_servers, Tail(sorted_videos), endpoints,
                               video_stats, video_sizes)

(* key (-total_demand, -latency_potential, size), compared as a tuple *)
PriorityLess(video_stats, video_sizes, a, b) ==
    \/ -video_stats[a].total_demand < -video_stats[b].total_demand
    \/ /\ video_stats[a].total_demand = video_stats[b].total_demand
       /\ \/ -video_stats[a].latency_potential < -video_stats[b].latency_potential
          \/ /\ video_stats[a].latency_potential = video_stats[b].latency_potential
             /\ video_sizes[a] < video_sizes[b]

enhanced_cache_placement(requests, endpoints, video_sizes, C, X) ==
    LET video_stats == preprocess_requests(requests, endpoints, video_sizes)
        vids == DOMAIN video_sizes
        less == { p \in vids \X vids : PriorityLess(video_stats, video_sizes, p[1], p[2]) }
        sorted_videos == SortedFrom(vids, less)
    IN  EnhancedLoop(EmptyCaches(C, X), sorted_videos, endpoints, video_stats, video_sizes)

(* ---------------- main_2_otherOperators.py ---------------- *)
(* process_file: video_request_counts[vid] += num_requests (defaultdict) *)
RECURSIVE CountOf(_, _)
CountOf(vid, requests) ==
    IF requests = << >> THEN 0
    ELSE (IF Head(requests)[1] = vid THEN Head(requests)[3] ELSE 0)
         + CountOf(vid, Tail(requests))

video_request_counts(requests, V) == [vid \in range(V) |-> CountOf(vid, requests)]

(* key = counts[v] / sizes[v] if sizes[v] > 0 else 0, reverse=True; the    *)
(* quotients are compared by cross-multiplication                          *)
DensityLess(video_sizes, counts, a, b) ==
    LET na == IF video_sizes[a] > 0 THEN counts[a] ELSE 0
        da == IF video_sizes[a] > 0 THEN video_sizes[a] ELSE 1
        nb == IF video_sizes[b] > 0 THEN counts[b] ELSE 0
        db == IF video_sizes[b] > 0 THEN video_sizes[b] ELSE 1
    IN  na * db > nb * da

DensityOrder(video_sizes, counts) ==
    LET vids == DOMAIN video_sizes
        less == { p \in vids \X vids : DensityLess(video_sizes, counts, p[1], p[2]) }
    IN  SortedFrom(vids, less)

operator_1(cache_servers, video_sizes, counts, X, C) ==
    FirstFitAll(EmptyCaches(C, X), DensityOrder(video_sizes, counts), C, video_sizes)

(* cache_weights[cid] += reqs * gain on an insertion-ordered dict *)
AddWeight(cache_weights, cid, w) ==
    IF cid \in Keys(cache_weights)
    THEN [i \in 1 .. Len(cache_weights) |->
            IF cache_weights[i][1] = cid
            THEN << cid, cache_weights[i][2] + w >>
            ELSE cache_weights[i]]
    ELSE Append(cache_weights, << cid, w >>)

RECURSIVE WeighEndpoint(_, _, _, _)
WeighEndpoint(cache_weights, lat, endpoint, reqs) ==
    IF lat = << >> THEN cache_weights
    ELSE LET cid  == Head(lat)[1]
             gain == endpoint.data_center_latency - Head(lat)[2]
         IN  WeighEndpoint(IF gain > 0 THEN AddWeight(cache_weights, cid, reqs * gain)
                                       ELSE cache_weights,
                           Tail(lat), endpoint, reqs)

RECURSIVE CacheWeights(_, _, _, _)
CacheWeights(cache_weights, vid, requests, endpoints) ==
    IF requests = << >> THEN cache_weights
    ELSE LET r == Head(requests)
         IN  IF r[1] # vid
             THEN CacheWeights(cache_weights, vid, Tail(requests), endpoints)
             ELSE CacheWeights(WeighEndpoint(cache_weights,
                                             endpoints[r[2]].cache_latencies,
                                             endpoints[r[2]], r[3]),
                               vid, Tail(requests), endpoints)

(* sorted(cache_weights.items(), key=lambda x: -x[1]), cache ids only *)
sorted_caches(cache_weights) ==
    LET pos  == 1 .. Len(cache_weights)
        less == { p \in pos \X pos : -cache_weights[p[1]][2] < -cache_weights[p[2]][2] }
        ord  == SortedFrom(pos, less)
    IN  [i \in 1 .. Len(ord) |-> cache_weights[ord[i]][1]]

RECURSIVE Operator2Loop(_, _, _, _, _)
Operator2Loop(new_cache_servers, sorted_videos, requests, endpoints, video_sizes) ==
    IF sorted_videos = << >> THEN new_cache_servers
    ELSE LET vid == Head(sorted_videos)
             cache_weights == CacheWeights(<< >>, vid, requests, endpoints)
         IN  Operator2Loop(FirstFit(new_cache_servers, sorted_caches(cache_weights),
                                    vid, video_sizes),
                           Tail(sorted_videos), requests, endpoints, video_sizes)

operator_2(cache_servers, requests, endpoints, video_sizes, counts, X, C) ==
    Operator2Loop(EmptyCaches(C, X), DensityOrder(video_sizes, counts),
                  requests, endpoints, video_sizes)

(* ---------------- main.py: perturb_solution, generate_neighbor ---------------- *)
(* The argument object and the object the operator writes to live in a     *)
(* two-cell heap: arg is the caller's solution, new the copy.  deepcopy    *)
(* returns the reference the operator then mutates.                        *)
(* new_solution = solution: the operator writes through the caller's object *)
deepcopy_alias(solution) == [ref |-> "arg", heap |-> [arg |-> solution, new |-> solution]]

deepcopy(solution) == [ref |-> "new", heap |-> [arg |-> solution, new |-> solution]]

(* random.sample(range(C), C) *)
sample_all(C) ==
    { p \in [1 .. C -> range(C)] : \A i, j \in 1 .. C : p[i] = p[j] => i = j }

(* the re-insertion without the capacity test *)
Reinsert_nofit(new_solution, order, cache_id, vid, video_sizes) ==
    LET others == SelectSeq(order, LAMBDA c : c # cache_id)
    IN  IF others = << >> THEN new_solution
        ELSE Place(new_solution, Head(others), vid, video_sizes)

(* for new_cache_id in <order>: if new_cache_id != cache_id and fits: add; break *)
RECURSIVE Reinsert(_, _, _, _, _)
Reinsert(new_solution, order, cache_id, vid, video_sizes) ==
    IF order = << >> THEN new_solution
    ELSE IF Head(order) # cache_id
              /\ video_sizes[vid] <= new_solution[Head(order)].remaining_capacity
         THEN Place(new_solution, Head(order), vid, video_sizes)
         ELSE Reinsert(new_solution, Tail(order), cache_id, vid, video_sizes)

(* the loop body without videos.remove(vid) *)
PerturbOnce_keep(heap, ref, video_sizes, C, orders) ==
    UNION { IF heap[ref][cache_id].videos = {}
            THEN { heap }
            ELSE { [heap EXCEPT ![ref] =
                      Reinsert([heap[ref] EXCEPT
                                  ![cache_id].remaining_capacity = @ + video_sizes[vid]],
                               order, cache_id, vid, video_sizes)]
                   : <<vid, order>> \in heap[ref][cache_id].videos \X orders }
          : cache_id \in range(C) }

(* one pass of the loop body, for every outcome of the random draws *)
PerturbOnce(heap, ref, video_sizes, C, orders) ==
    UNION { IF heap[ref][cache_id].videos = {}
            THEN { heap }
            ELSE { [heap EXCEPT ![ref] =
                      Reinsert([heap[ref] EXCEPT
                                  ![cache_id].videos = @ \ {vid},
                                  ![cache_id].remaining_capacity = @ + video_sizes[vid]],
                               order, cache_id, vid, video_sizes)]
                   : <<vid, order>> \in heap[ref][cache_id].videos \X orders }
          : cache_id \in range(C) }

RECURSIVE PerturbLoop(_, _, _, _, _, _)
PerturbLoop(heaps, ref, video_sizes, C, orders, num_changes) ==
    IF num_changes = 0 THEN heaps
    ELSE PerturbLoop(UNION { PerturbOnce(h, ref, video_sizes, C, orders) : h \in heaps },
                     ref, video_sizes, C, orders, num_changes - 1)

(* the possible outcomes: the argument as the call leaves it, the result *)
perturb_solution(solution, video_sizes, C, X, num_changes) ==
    LET copy   == deepcopy(solution)
        orders == sample_all(C)          (* random.sample(range(C), C) *)
    IN  IF num_changes > 0 /\ C < 1      (* random.randint(0, -1) *)
        THEN { [exc |-> "ValueError", solution |-> copy.heap.arg, result |-> << >>] }
        ELSE { [exc |-> "None", solution |-> h.arg, result |-> h[copy.ref]]
               : h \in PerturbLoop({copy.heap}, copy.ref, video_sizes, C, orders,
                                    num_changes) }

Swap(heap, ref, cache1, cache2, vid1, vid2, video_sizes) ==
    LET neighbor  == heap[ref]
        size_diff == video_sizes[vid1] - video_sizes[vid2]
    IN  IF /\ neighbor[cache1].remaining_capacity + video_sizes[vid1] >= video_sizes[vid2]
           /\ neighbor[cache2].remaining_capacity + video_sizes[vid2] >= video_sizes[vid1]
        THEN [heap EXCEPT ![ref] =
                [neighbor EXCEPT
                   ![cache1].videos = (@ \ {vid1}) \cup {vid2},
                   ![cache1].remaining_capacity = @ + size_diff,
                   ![cache2].videos = (@ \ {vid2}) \cup {vid1},
                   ![cache2].remaining_capacity = @ - size_diff]]
        ELSE heap

generate_neighbor(solution, video_sizes, C, X) ==
    LET copy == deepcopy(solution)
        heap == copy.heap
        ref  == copy.ref
    IN  IF C < 2                         (* random.sample(range(C), 2) *)
        THEN { [exc |-> "ValueError", solution |-> heap.arg, result |-> << >>] }
        ELSE UNION {
               IF heap[ref][cc[1]].videos = {} \/ heap[ref][cc[2]].videos = {}
               THEN { [exc |-> "None", solution |-> heap.arg, result |-> heap[ref]] }
               ELSE { LET h == Swap(heap, ref, cc[1], cc[2], vv[1], vv[2], video_sizes)
                      IN  [exc |-> "None", solution |-> h.arg, result |-> h[ref]]
                      : vv \in heap[ref][cc[1]].videos \X heap[ref][cc[2]].videos }
               : cc \in { q \in range(C) \X range(C) : q[1] # q[2] } }

(* ---------------- calculate_score, three copies ---------------- *)
RECURSIVE SumRequests(_)
SumRequests(requests) ==
    IF requests = << >> THEN 0 ELSE Head(requests)[3] + SumRequests(Tail(requests))

(* main.py: video_cache_map[vid] *)
video_cache_map(cache_servers, vid) ==
    { cache_id \in DOMAIN cache_servers : vid \in cache_servers[cache_id].videos }

(* the loop without min(): the last reachable holder's latency wins *)
RECURSIVE BestOverCaches_nomin(_, _, _)
BestOverCaches_nomin(cache_ids, endpoint, best_latency) ==
    IF cache_ids = {} THEN best_latency
    ELSE LET cache_id == CHOOSE c \in cache_ids : TRUE
         IN  BestOverCaches_nomin(cache_ids \ {cache_id}, endpoint,
                 IF cache_id \in Keys(endpoint.cache_latencies)
                 THEN Get(endpoint.cache_latencies, cache_id)
                 ELSE best_latency)

RECURSIVE BestOverCaches(_, _, _)
BestOverCaches(cache_ids, endpoint, best_latency) ==
    IF cache_ids = {} THEN best_latency
    ELSE LET cache_id == CHOOSE c \in cache_ids : TRUE
         IN  BestOverCaches(cache_ids \ {cache_id}, endpoint,
                 IF cache_id \in Keys(endpoint.cache_latencies)
                 THEN Min2(best_latency, Get(endpoint.cache_latencies, cache_id))
                 ELSE best_latency)

RECURSIVE SavedMain(_, _, _)
SavedMain(requests, endpoints, cache_servers) ==
    IF requests = << >> THEN 0
    ELSE LET r == Head(requests)
             endpoint == endpoints[r[2]]
             best_latency == BestOverCaches(video_cache_map(cache_servers, r[1]), endpoint,
                                            endpoint.data_center_latency)
         IN  (endpoint.data_center_latency - best_latency) * r[3]
             + SavedMain(Tail(requests), endpoints, cache_servers)

calculate_score(requests, endpoints, cache_servers, video_sizes) ==
    LET total_saved_time == SavedMain(requests, endpoints, cache_servers)
        total_requests   == SumRequests(requests)
    IN  IF total_requests > 0 THEN Scaled(total_saved_time, total_requests) ELSE 0

(* main_2_otherOperators.py and ushtrime.py walk the endpoint's dict and   *)
(* index cache_servers with each key; strict selects ushtrime's            *)
(* "if Lc < min_latency" against min(best_latency, cache_latency)          *)
RECURSIVE BestOverDict(_, _, _, _, _)
BestOverDict(lat, vid, cache_servers, best_latency, strict) ==
    IF lat = << >> THEN [exc |-> "None", value |-> best_latency]
    ELSE LET cache_id == Head(lat)[1]
             n == Cardinality(DOMAIN cache_servers)
         IN  IF ~InIndex(n, cache_id)
             THEN [exc |-> "IndexError", value |-> 0]
             ELSE BestOverDict(Tail(lat), vid, cache_servers,
                     IF vid \in PyIndex(cache_servers, n, cache_id).videos
                     THEN (IF strict
                           THEN (IF Head(lat)[2] < best_latency THEN Head(lat)[2]
                                                               ELSE best_latency)
                           ELSE Min2(best_latency, Head(lat)[2]))
                     ELSE best_latency,
                     strict)

RECURSIVE SavedOther(_, _, _)
SavedOther(requests, endpoints, cache_servers) ==
    IF requests = << >> THEN [exc |-> "None", value |-> 0]
    ELSE LET r == Head(requests)
             endpoint   == endpoints[r[2]]
             dc_latency == endpoint.data_center_latency
             best == BestOverDict(endpoint.cache_latencies, r[1], cache_servers,
                                  dc_latency, FALSE)
             rest == SavedOther(Tail(requests), endpoints, cache_servers)
         IN  IF best.exc # "None" THEN best
             ELSE IF rest.exc # "None" THEN rest
             ELSE [exc |-> "None", value |-> (dc_latency - best.value) * r[3] + rest.value]

calculate_score_other(requests, endpoints, cache_servers, video_sizes) ==
    LET total_saved_time == SavedOther(requests, endpoints, cache_servers)
        total_requests   == SumRequests(requests)
    IN  IF total_saved_time.exc # "None" THEN total_saved_time
        ELSE IF total_requests = 0 THEN [exc |-> "None", value |-> 0]
        ELSE [exc |-> "None",
              value |-> Scaled(total_saved_time.value, total_requests)]

RECURSIVE SavedUshtrime(_, _, _)
SavedUshtrime(requests, endpoints, cache_servers) ==
    IF requests = << >> THEN [exc |-> "None", value |-> 0]
    ELSE LET r == Head(requests)
             endpoint == endpoints[r[2]]
             LD   == endpoint.data_center_latency
             best == BestOverDict(endpoint.cache_latencies, r[1], cache_servers, LD, TRUE)
             rest == SavedUshtrime(Tail(requests), endpoints, cache_servers)
         IN  IF best.exc # "None" THEN best
             ELSE IF rest.exc # "None" THEN rest
             ELSE [exc |-> "None", value |-> Max2(LD - best.value, 0) * r[3] + rest.value]

calculate_score_ushtrime(cache_servers, endpoints, requests) ==
    LET total_time_saved_ms == SavedUshtrime(requests, endpoints, cache_servers)
        total_requests      == SumRequests(requests)
    IN  IF total_time_saved_ms.exc # "None" THEN total_time_saved_ms
        ELSE IF total_requests = 0 THEN [exc |-> "None", value |-> 0]
        ELSE [exc |-> "None",
              value |-> Scaled(total_time_saved_ms.value, total_requests)]

(* ---------------- validate_solution ---------------- *)
(* A diagnostic is <<kind, id>>: the message printed and the cache or      *)
(* video id it names (None when the message names no id).                  *)
(* the validator without its negative-size test *)
NegativeSizeCheck_off(video_sizes) == {}

NegativeSizeCheck(video_sizes) ==
    IF \E v \in DOMAIN video_sizes : video_sizes[v] < 0
    THEN { << "Negative video size found", None >> } ELSE {}

NegativeRemainingCheck(cache_servers) ==
    IF \E c \in DOMAIN cache_servers : cache_servers[c].remaining_capacity < 0
    THEN { << "Cache remaining capacity is negative", None >> } ELSE {}

(* video_sizes[vid] raises IndexError for an id that is no legal index *)
CapacityCheckRaises(cache_servers, video_sizes) ==
    \E c \in DOMAIN cache_servers : \E vid \in cache_servers[c].videos :
        ~InIndex(Cardinality(DOMAIN video_sizes), vid)

CapacityCheck(cache_servers, video_sizes, X) ==
    { << "exceeds capacity", cid >> : cid \in
        { c \in DOMAIN cache_servers :
            total_size(cache_servers[c].videos, video_sizes,
                       Cardinality(DOMAIN video_sizes)) > X } }

(* all_videos grows cache by cache: a video is reported at its second cache *)
UniquenessCheck(cache_servers) ==
    { << "appears in multiple caches", vid >> : vid \in
        { v \in UNION { cache_servers[c].videos : c \in DOMAIN cache_servers } :
            \E c1, c2 \in DOMAIN cache_servers :
                c1 < c2 /\ v \in cache_servers[c1].videos /\ v \in cache_servers[c2].videos } }

(* main.py, Check 4 *)
VideoIdCheck(cache_servers, V) ==
    { << "Invalid video ID", vid >> : vid \in
        { v \in UNION { cache_servers[c].videos : c \in DOMAIN cache_servers } :
            v < 0 \/ v >= V } }

validate_solution(cache_servers, video_sizes, X, V) ==
    LET first == NegativeSizeCheck(video_sizes) \cup NegativeRemainingCheck(cache_servers)
    IN  IF CapacityCheckRaises(cache_servers, video_sizes)
        THEN [exc |-> "IndexError", valid |-> FALSE, diagnostics |-> first]
        ELSE LET diagnostics == first
                                  \cup CapacityCheck(cache_servers, video_sizes, X)
                                  \cup UniquenessCheck(cache_servers)
                                  \cup VideoIdCheck(cache_servers, V)
             IN  [exc |-> "None", valid |-> diagnostics = {}, diagnostics |-> diagnostics]

(* ushtrime.py and main_2_otherOperators.py, Check 4: the submission lines *)
(* are formatted and parsed back.  A string is a sequence of characters.   *)
Digits == << "0", "1", "2", "3", "4", "5", "6", "7", "8", "9" >>

RECURSIVE str_nat(_)
str_nat(n) == IF n < 10 THEN << Digits[n + 1] >>
              ELSE str_nat(n \div 10) \o << Digits[(n % 10) + 1] >>

str(n) == IF n < 0 THEN << "-" >> \o str_nat(-n) ELSE str_nat(n)

RECURSIVE join(_, _)
join(sep, tokens) ==
    IF tokens = << >> THEN << >>
    ELSE IF Len(tokens) = 1 THEN tokens[1]
    ELSE tokens[1] \o sep \o join(sep, Tail(tokens))

(* line.split(): the maximal runs of non-blank characters *)
RECURSIVE SplitFrom(_, _, _)
SplitFrom(line, word, parts) ==
    IF line = << >> THEN (IF word = << >> THEN parts ELSE Append(parts, word))
    ELSE IF Head(line) = " "
         THEN SplitFrom(Tail(line), << >>, IF word = << >> THEN parts ELSE Append(parts, word))
         ELSE SplitFrom(Tail(line), Append(word, Head(line)), parts)

split(line) == SplitFrom(line, << >>, << >>)

IsDigit(ch) == \E i \in 1 .. 10 : Digits[i] = ch

DigitValue(ch) == (CHOOSE i \in 1 .. 10 : Digits[i] = ch) - 1

RECURSIVE int_nat(_, _)
int_nat(word, acc) ==
    IF word = << >> THEN acc
    ELSE int_nat(Tail(word), acc * 10 + DigitValue(Head(word)))

(* int(word): ValueError unless an optional sign followed by digits *)
int(word) ==
    LET body == IF word # << >> /\ Head(word) \in {"-", "+"} THEN Tail(word) ELSE word
    IN  IF body = << >> \/ \E i \in 1 .. Len(body) : ~IsDigit(body[i])
        THEN [exc |-> "ValueError", value |-> 0]
        ELSE [exc |-> "None",
              value |-> IF Head(word) = "-" THEN -int_nat(body, 0) ELSE int_nat(body, 0)]

(* sorted(cache['videos']) *)
sorted_vids(videos) ==
    SortedFrom(videos, { p \in videos \X videos : p[1] < p[2] })

(* f"{cache_id} {' '.join(map(str, sorted_vids))}" for the non-empty caches *)
submission(cache_servers) ==
    LET used == { c \in DOMAIN cache_servers : cache_servers[c].videos # {} }
        ids  == SortedFrom(used, { p \in used \X used : p[1] < p[2] })
    IN  [i \in 1 .. Len(ids) |->
           LET vids == sorted_vids(cache_servers[ids[i]].videos)
           IN  str(ids[i]) \o << " " >>
               \o join(<< " " >>, [k \in 1 .. Len(vids) |-> str(vids[k])])]

(* one submission line: the diagnostics of its video ids, or ValueError *)
LineCheck(line, V) ==
    LET parts    == split(line)
        cache_id == int(parts[1])
        videos   == [k \in 1 .. Len(parts) - 1 |-> int(parts[k + 1])]
        values   == { videos[k].value : k \in 1 .. Len(videos) }
    IN  IF cache_id.exc # "None" \/ \E k \in 1 .. Len(videos) : videos[k].exc # "None"
        THEN { << "Non-integer values in output", None >> }
        ELSE { << "Invalid video ID", vid >> : vid \in { v \in values : v < 0 \/ v >= V } }
             \cup (IF Len(videos) # Cardinality(values)
                   THEN { << "Duplicate video IDs found in cache", cache_id.value >> }
                   ELSE {})

SubmissionCheck(cache_servers, V) ==
    LET lines == submission(cache_servers)
    IN  UNION { LineCheck(lines[i], V) : i \in 1 .. Len(lines) }

validate_solution_ushtrime(cache_servers, video_sizes, X, V) ==
    LET first == NegativeSizeCheck(video_sizes) \cup NegativeRemainingCheck(cache_servers)
    IN  IF CapacityCheckRaises(cache_servers, video_sizes)
        THEN [exc |-> "IndexError", valid |-> FALSE, diagnostics |-> first]
        ELSE LET diagnostics == first
                                  \cup CapacityCheck(cache_servers, video_sizes, X)
                                  \cup UniquenessCheck(cache_servers)
                                  \cup SubmissionCheck(cache_servers, V)
             IN  [exc |-> "None", valid |-> diagnostics = {}, diagnostics |-> diagnostics]

(* ---------------- the inputs explored ---------------- *)
default_max_iterations == 10

Sizes == (-MaxNegSize) .. MaxSize

(* the size lists explored: all videos alike, or one video (at a position  *)
(* in K) unlike the rest                                                   *)
SizeProfiles(V, S, K) ==
    { [v \in range(V) |-> a] : a \in S }
    \cup { [v \in range(V) |-> IF v = q[1] THEN q[2] ELSE 1] : q \in K \X S }

(* the latency dicts over the caches 0..C-1, latencies below and above the *)
(* datacenter latency 2, every insertion order                             *)
LatTables(C) ==
    { t \in UNION { [1 .. n -> range(C) \X {1, 3}] : n \in 0 .. C } :
        \A i, j \in 1 .. Len(t) : t[i][1] = t[j][1] => i = j }

Endpoint(dc, lat) == [data_center_latency |-> dc, cache_latencies |-> lat]

Instance(video_sizes, C, X, endpoints, requests, max_iterations) ==
    [V |-> Cardinality(DOMAIN video_sizes), C |-> C, X |-> X,
     video_sizes |-> video_sizes, endpoints |-> endpoints, requests |-> requests,
     max_iterations |-> max_iterations]

(* ushtrime.py main(): the built-in instance, and the same instance with   *)
(* sizes [50, 50, 80, 30, 110]                                             *)
UshtrimeEndpoints ==
    [e \in 0 .. 1 |->
        IF e = 0 THEN Endpoint(1000, << <<0, 100>>, <<2, 200>>, <<1, 300>> >>)
                 ELSE Endpoint(500, << >>)]

UshtrimeRequests == << <<3, 0, 1500>>, <<0, 1, 1000>>, <<4, 0, 500>>, <<1, 0, 1000>> >>

UshtrimeInstance ==
    Instance([v \in 0 .. 4 |-> << 50, -50, 80, 30, 150 >>[v + 1]], 3, 100,
             UshtrimeEndpoints, UshtrimeRequests, default_max_iterations)

Scenario ==
    Instance([v \in 0 .. 4 |-> << 50, 50, 80, 30, 110 >>[v + 1]], 3, 100,
             UshtrimeEndpoints, UshtrimeRequests, default_max_iterations)

ScenarioOneRequest ==
    Instance([v \in 0 .. 4 |-> << 50, 50, 80, 30, 110 >>[v + 1]], 3, 100,
             UshtrimeEndpoints, << <<3, 0, 1500>> >>, default_max_iterations)

Workloads ==
    << << <<0, 0, 2>>, <<1, 0, 1>>, <<1, 1, 1>> >>,
       << <<0, 0, 1>>, <<0, 1, 1>>, <<1, 0, 1>> >> >>

(* for the mutation runs: one slow cache, or every cache reachable *)
PlacementTables(C) ==
    { << <<0, 3>> >>, [k \in 1 .. C |-> << k - 1, 1 >>] }

PlacementInstances ==
    { Instance(video_sizes, C, Capacity,
               [e \in 0 .. 1 |-> IF e = 0 THEN Endpoint(2, lat) ELSE Endpoint(1, << >>)],
               requests, default_max_iterations)
      : <<video_sizes, C, lat, requests>> \in
          { q \in SizeProfiles(NumVideos, {-MaxNegSize} \cup (0 .. MaxSize), {0})
                    \X (1 .. MaxCaches)
                    \X LatTables(MaxCaches) \X { Workloads[1] } :
              q[3] \in PlacementTables(q[2]) } }

(* ---------------- state ---------------- *)
VARIABLES
    inst,              (* the problem instance, never mutated                 *)
    pc,                (* position of the running program                     *)
    exc,               (* "None" or the exception that ended the program      *)
    cache_servers,     (* the assignment the caller holds                     *)
    passed,            (* the object last passed to a mutation operator, as   *)
                       (* the call left it                                    *)
    report,            (* result of validate_solution                         *)
    score,             (* results of the calculate_score copies               *)
    current_solution, best_score, candidate, candidate_score, iteration,
                       (* locals of iterated_local_search                     *)
    basic_caches, basic_score, enhanced_caches, enhanced_score, seed
                       (* locals of main.py process_file                      *)

search_vars == << current_solution, best_score, candidate, candidate_score, iteration >>

file_vars == << basic_caches, basic_score, enhanced_caches, enhanced_score, seed >>

vars == << inst, pc, exc, cache_servers, passed, report, score, search_vars, file_vars >>

NoReport == [exc |-> "None", valid |-> TRUE, diagnostics |-> {}]

NoScore == [main |-> 0, other |-> 0, ushtrime |-> 0]

Blank ==
    /\ exc = "None"
    /\ passed = << >>
    /\ report = NoReport
    /\ score = NoScore
    /\ current_solution = << >> /\ best_score = 0
    /\ candidate = << >> /\ candidate_score = 0 /\ iteration = 0
    /\ basic_caches = << >> /\ basic_score = 0
    /\ enhanced_caches = << >> /\ enhanced_score = 0 /\ seed = << >>

(* ---------------- construction and mutation ---------------- *)
Init ==
    /\ inst \in PlacementInstances
    /\ pc = "start"
    /\ cache_servers = << >>
    /\ Blank

Built(result) ==
    /\ pc' = "built"
    /\ cache_servers' = result
    /\ UNCHANGED << inst, exc, passed, report, score, search_vars, file_vars >>

BasicPlacement ==
    /\ pc = "start"
    /\ Built(basic_cache_placement(inst.requests, inst.endpoints, inst.video_sizes,
                                   inst.C, inst.X))

LargestFirst ==
    /\ pc = "start"
    /\ Built(largest_first(inst.video_sizes, inst.V, inst.C, inst.X))

EnhancedPlacement ==
    /\ pc = "start"
    /\ LET r == enhanced_cache_placement(inst.requests, inst.endpoints, inst.video_sizes,
                                         inst.C, inst.X)
       IN  IF r.exc = "None"
           THEN Built(r.cache_servers)
           ELSE /\ pc' = "raised"
                /\ exc' = r.exc
                /\ UNCHANGED << inst, cache_servers, passed, report, score,
                                search_vars, file_vars >>

Operator1 ==
    /\ pc = "start"
    /\ Built(operator_1(None, inst.video_sizes,
                        video_request_counts(inst.requests, inst.V), inst.X, inst.C))

Operator2 ==
    /\ pc = "start"
    /\ Built(operator_2(None, inst.requests, inst.endpoints, inst.video_sizes,
                        video_request_counts(inst.requests, inst.V), inst.X, inst.C))

(* solution = operator(solution): the caller rebinds its name to the result *)
Mutated(out) ==
    /\ passed' = out.solution
    /\ IF out.exc = "None"
       THEN /\ cache_servers' = out.result
            /\ UNCHANGED << pc, exc >>
       ELSE /\ pc' = "raised"
            /\ exc' = out.exc
            /\ UNCHANGED cache_servers
    /\ UNCHANGED << inst, report, score, search_vars, file_vars >>

num_changes == 3

PerturbSolution ==
    /\ pc = "built"
    /\ \E out \in perturb_solution(cache_servers, inst.video_sizes, inst.C, inst.X,
                                   num_changes) :
          Mutated(out)

GenerateNeighbor ==
    /\ pc = "built"
    /\ \E out \in generate_neighbor(cache_servers, inst.video_sizes, inst.C, inst.X) :
          Mutated(out)

Validated(r) ==
    /\ report' = r
    /\ IF r.exc = "None"
       THEN pc' = "validated" /\ UNCHANGED exc
       ELSE pc' = "raised" /\ exc' = r.exc
    /\ UNCHANGED << inst, cache_servers, passed, score, search_vars, file_vars >>

ValidateSolution ==
    /\ pc \in { "built", "given" }
    /\ Validated(validate_solution(cache_servers, inst.video_sizes, inst.X, inst.V))

ValidateSolutionUshtrime ==
    /\ pc \in { "built", "given" }
    /\ Validated(validate_solution_ushtrime(cache_servers, inst.video_sizes, inst.X, inst.V))

Next ==
    \/ BasicPlacement
    \/ LargestFirst
    \/ EnhancedPlacement
    \/ Operator1
    \/ Operator2
    \/ PerturbSolution
    \/ GenerateNeighbor

Spec == Init /\ [][Next]_vars

(* ---------------- ushtrime.py: main ---------------- *)
(* "Video distribution logic": sorted by size, first fit in cache-id order *)
video_distribution(video_sizes, V, C, X) ==
    LET less == { p \in range(V) \X range(V) : video_sizes[p[1]] < video_sizes[p[2]] }
        sorted_videos == SortedFrom(range(V), less)
    IN  FirstFitAll(EmptyCaches(C, X), sorted_videos, C, video_sizes)

DistributionInstances ==
    { Instance(q[1], q[2], Capacity,
               [e \in 0 .. 1 |-> IF e = 0 THEN Endpoint(2, << <<0, 1>> >>)
                                         ELSE Endpoint(1, << >>)],
               << <<0, 0, 2>>, <<1, 0, 1>>, <<1, 1, 1>> >>, default_max_iterations)
      : q \in [range(NumVideos) -> Sizes] \X (1 .. MaxCaches) }

UshtrimeInit ==
    /\ inst \in DistributionInstances \cup { UshtrimeInstance, Scenario }
    /\ pc = "main"
    /\ cache_servers = << >>
    /\ Blank

UshtrimeDistribute ==
    /\ pc = "main"
    /\ pc' = "distributed"
    /\ cache_servers' = video_distribution(inst.video_sizes, inst.V, inst.C, inst.X)
    /\ UNCHANGED << inst, exc, passed, report, score, search_vars, file_vars >>

UshtrimeValidate ==
    /\ pc = "distributed"
    /\ LET r == validate_solution_ushtrime(cache_servers, inst.video_sizes, inst.X, inst.V)
       IN  /\ report' = r
           /\ IF r.exc = "None"
              THEN pc' = "validated" /\ UNCHANGED exc
              ELSE pc' = "raised" /\ exc' = r.exc
    /\ UNCHANGED << inst, cache_servers, passed, score, search_vars, file_vars >>

UshtrimeScore ==
    /\ pc = "validated"
    /\ LET r == calculate_score_ushtrime(cache_servers, inst.endpoints, inst.requests)
       IN  IF r.exc = "None"
           THEN /\ score' = [score EXCEPT !.ushtrime = r.value]
                /\ pc' = "done"
                /\ UNCHANGED exc
           ELSE /\ pc' = "raised"
                /\ exc' = r.exc
                /\ UNCHANGED score
    /\ UNCHANGED << inst, cache_servers, passed, report, search_vars, file_vars >>

UshtrimeNext ==
    \/ UshtrimeDistribute
    \/ UshtrimeValidate
    \/ UshtrimeScore

UshtrimeSpec == UshtrimeInit /\ [][UshtrimeNext]_vars

(* ---------------- the two process_file programs ---------------- *)
SearchWorkloads ==
    { << <<0, 0, 2>>, <<1, 0, 1>>, <<1, 1, 1>> >>,
      << <<0, 0, 3>>, <<0, 1, 1>>, <<1, 0, 1>> >>,
      << <<0, 1, 3>>, <<1, 0, 1>> >>,
      << <<1, 0, 2>>, <<0, 0, 0>> >>,
      << >> }

SecondTables == { << >>, << <<0, 1>> >>, << <<1, 1>> >> }

(* no cache, one cache, or every cache reachable (slower caches first) *)
SearchTables(C) ==
    { t \in LatTables(C) : Len(t) <= 1 }
    \cup { [k \in 1 .. C |-> << k - 1, 1 >>],
           [k \in 1 .. C |-> << C - k, IF k = 1 THEN 3 ELSE 1 >>] }

SearchInstances ==
    { Instance(q[1], q[2], Capacity,
               [e \in 0 .. 1 |-> IF e = 0 THEN Endpoint(2, q[3]) ELSE Endpoint(3, q[4])],
               q[5], q[6])
      : q \in { r \in SizeProfiles(NumVideos, 0 .. MaxSize, range(NumVideos)) \X (1 .. MaxCaches)
                        \X LatTables(MaxCaches) \X SecondTables \X SearchWorkloads
                        \X ((1 .. MaxIterations) \cup {default_max_iterations}) :
                  r[3] \in SearchTables(r[2]) /\ Keys(r[4]) \subseteq range(r[2]) } }

SearchInit ==
    /\ inst \in SearchInstances
    /\ pc \in { "iterated_local_search" }
             \cup (IF inst.max_iterations = default_max_iterations
                   THEN { "process_file" } ELSE {})
    /\ cache_servers = << >>
    /\ Blank

Raise(e) ==
    /\ pc' = "raised"
    /\ exc' = e

(* acceptance with >= in place of > *)
Accepts_ge(cand_score, incumbent_score) == cand_score >= incumbent_score

(* acceptance of every candidate, whatever it scores *)
Accepts_always(cand_score, incumbent_score) == cand_score = cand_score

(* main_2_otherOperators.py: iterated_local_search *)
Accepts(cand_score, incumbent_score) == cand_score > incumbent_score

SearchStart ==
    /\ pc = "iterated_local_search"
    /\ LET counts == video_request_counts(inst.requests, inst.V)
           first  == operator_1(None, inst.video_sizes, counts, inst.X, inst.C)
           s      == calculate_score_other(inst.requests, inst.endpoints, first,
                                           inst.video_sizes)
       IN  /\ current_solution' = first
           /\ IF s.exc = "None"
              THEN best_score' = s.value /\ pc' = "loop" /\ UNCHANGED exc
              ELSE Raise(s.exc) /\ UNCHANGED best_score
    /\ UNCHANGED << inst, cache_servers, passed, report, score,
                    candidate, candidate_score, iteration, file_vars >>

SearchIteration ==
    /\ pc = "loop"
    /\ iteration < inst.max_iterations
    /\ LET counts == video_request_counts(inst.requests, inst.V)
           c == operator_2(None, inst.requests, inst.endpoints, inst.video_sizes,
                           counts, inst.X, inst.C)
           s == calculate_score_other(inst.requests, inst.endpoints, c, inst.video_sizes)
       IN  /\ candidate' = c
           /\ IF s.exc # "None"
              THEN /\ Raise(s.exc)
                   /\ UNCHANGED << candidate_score, current_solution, best_score, iteration >>
              ELSE /\ candidate_score' = s.value
                   /\ iteration' = iteration + 1
                   /\ UNCHANGED << pc, exc >>
                   /\ IF Accepts(s.value, best_score)
                      THEN current_solution' = c /\ best_score' = s.value
                      ELSE UNCHANGED << current_solution, best_score >>
    /\ UNCHANGED << inst, cache_servers, passed, report, score, file_vars >>

SearchReturn ==
    /\ pc = "loop"
    /\ iteration = inst.max_iterations
    /\ pc' = "returned"
    /\ cache_servers' = current_solution
    /\ UNCHANGED << inst, exc, passed, report, score, search_vars, file_vars >>

(* main_2_otherOperators.py process_file: validate the returned solution *)
SearchValidate ==
    /\ pc = "returned"
    /\ LET r == validate_solution_ushtrime(cache_servers, inst.video_sizes, inst.X, inst.V)
       IN  /\ report' = r
           /\ IF r.exc = "None"
              THEN pc' = "done" /\ UNCHANGED exc
              ELSE Raise(r.exc)
    /\ UNCHANGED << inst, cache_servers, passed, score, search_vars, file_vars >>

(* main.py process_file *)
FileBasic ==
    /\ pc = "process_file"
    /\ LET b == basic_cache_placement(inst.requests, inst.endpoints, inst.video_sizes,
                                      inst.C, inst.X)
       IN  /\ basic_caches' = b
           /\ basic_score' = calculate_score(inst.requests, inst.endpoints, b,
                                             inst.video_sizes)
    /\ pc' = "enhanced"
    /\ UNCHANGED << inst, exc, cache_servers, passed, report, score, search_vars,
                    enhanced_caches, enhanced_score, seed >>

FileEnhanced ==
    /\ pc = "enhanced"
    /\ LET r == enhanced_cache_placement(inst.requests, inst.endpoints, inst.video_sizes,
                                         inst.C, inst.X)
       IN  IF r.exc = "None"
           THEN /\ enhanced_caches' = r.cache_servers
                /\ enhanced_score' = calculate_score(inst.requests, inst.endpoints,
                                                     r.cache_servers, inst.video_sizes)
                /\ pc' = "search"
                /\ UNCHANGED exc
           ELSE /\ Raise(r.exc)
                /\ UNCHANGED << enhanced_caches, enhanced_score >>
    /\ UNCHANGED << inst, cache_servers, passed, report, score, search_vars,
                    basic_caches, basic_score, seed >>

(* the call handed the basic placement instead *)
search_seed_basic(basic, basic_s, enhanced, enhanced_s) == basic

(* the first argument of the call at "Run ILS on enhanced solution" *)
search_seed(basic, basic_s, enhanced, enhanced_s) == enhanced

(* iterative_local_search(enhanced_caches, ...): the name is defined nowhere *)
FileSearch ==
    /\ pc = "search"
    /\ seed' = search_seed(basic_caches, basic_score, enhanced_caches, enhanced_score)
    /\ Raise("NameError")
    /\ UNCHANGED << inst, cache_servers, passed, report, score, search_vars,
                    basic_caches, basic_score, enhanced_caches, enhanced_score >>

SearchNext ==
    \/ SearchStart
    \/ SearchIteration
    \/ SearchReturn
    \/ SearchValidate
    \/ FileBasic
    \/ FileEnhanced
    \/ FileSearch

SearchSpec == SearchInit /\ [][SearchNext]_vars

(* ---------------- validator and scorers on arbitrary assignments ---------------- *)
NoWorkload(video_sizes, C) ==
    Instance(video_sizes, C, Capacity,
             [e \in 0 .. 1 |-> Endpoint(2, << >>)], << >>, default_max_iterations)

(* every video in at most one of n caches, the bookkeeping exact *)
Partitioned(i, n) ==
    { [c \in range(n) |->
         LET vs == { v \in range(i.V) : where[v] = c }
         IN  [videos |-> vs,
              remaining_capacity |-> i.X - total_size(vs, i.video_sizes, i.V)]]
      : where \in [range(i.V) -> (-1) .. (n - 1)] }

(* a partitioned assignment with one defect: a video id that is no video,  *)
(* a video copied into a second cache, a negative remaining_capacity       *)
Defective(i) ==
    UNION { { [a EXCEPT ![q[1]].videos = @ \cup {q[2]}]
              : q \in range(i.C) \X ((-1) .. i.V) }
            \cup { [a EXCEPT ![c].remaining_capacity = -1] : c \in range(i.C) }
          : a \in Partitioned(i, i.C) }

(* video 0 stored in any set of caches, the other videos in cache 0 or nowhere *)
Replicated(i) ==
    { [c \in range(i.C) |->
         LET vs == (IF c \in q[1] THEN {0} ELSE {})
                   \cup (IF c = 0 THEN q[2] ELSE {})
         IN  [videos |-> vs,
              remaining_capacity |-> i.X - total_size(vs, i.video_sizes, i.V)]]
      : q \in (SUBSET range(i.C)) \X (SUBSET (1 .. (i.V - 1))) }

(* requests for the videos 0 and 1, with negative, zero and positive counts *)
ScoreRequests ==
    LET first  == (0 .. 1) \X (0 .. 1) \X { -1, 0, 2 }
        second == (0 .. 1) \X { 0 } \X { 1 }
    IN  { << >> } \cup { << r >> : r \in first }
        \cup { << q[1], q[2] >> : q \in first \X second }

ScoreInstances ==
    { Instance([v \in range(NumVideos) |-> 1], MaxCaches, Capacity,
               [e \in 0 .. 1 |-> IF e = 0 THEN Endpoint(2, q[1]) ELSE Endpoint(3, q[2])],
               q[3], default_max_iterations)
      : q \in { t \in LatTables(MaxCaches) : Len(t) <= 2 }
                \X { << >>, << <<1, 1>> >> } \X ScoreRequests }

PureInit ==
    /\ \/ /\ inst \in { NoWorkload(vs, MaxCaches) : vs \in SizeProfiles(NumVideos, Sizes, range(NumVideos)) }
          /\ cache_servers \in Partitioned(inst, inst.C) \cup Defective(inst)
                                \cup Partitioned(inst, inst.C + 1)
       \/ /\ inst \in ScoreInstances
          /\ cache_servers \in Partitioned(inst, inst.C) \cup Replicated(inst)
       \/ /\ inst = ScenarioOneRequest
          /\ cache_servers = video_distribution(inst.video_sizes, inst.V, inst.C, inst.X)
    /\ pc = "given"
    /\ Blank

ScoreMain ==
    /\ pc = "given"
    /\ score' = [score EXCEPT !.main = calculate_score(inst.requests, inst.endpoints,
                                                       cache_servers, inst.video_sizes)]
    /\ pc' = "scored_main"
    /\ UNCHANGED << inst, exc, cache_servers, passed, report, search_vars, file_vars >>

ScoreOther ==
    /\ pc = "scored_main"
    /\ LET r == calculate_score_other(inst.requests, inst.endpoints, cache_servers,
                                      inst.video_sizes)
       IN  IF r.exc = "None"
           THEN /\ score' = [score EXCEPT !.other = r.value]
                /\ pc' = "scored_other"
                /\ UNCHANGED exc
           ELSE Raise(r.exc) /\ UNCHANGED score
    /\ UNCHANGED << inst, cache_servers, passed, report, search_vars, file_vars >>

ScoreUshtrime ==
    /\ pc = "scored_other"
    /\ LET r == calculate_score_ushtrime(cache_servers, inst.endpoints, inst.requests)
       IN  IF r.exc = "None"
           THEN /\ score' = [score EXCEPT !.ushtrime = r.value]
                /\ pc' = "scored"
                /\ UNCHANGED exc
           ELSE Raise(r.exc) /\ UNCHANGED score
    /\ UNCHANGED << inst, cache_servers, passed, report, search_vars, file_vars >>

PureNext ==
    \/ ValidateSolution
    \/ ValidateSolutionUshtrime
    \/ ScoreMain
    \/ ScoreOther
    \/ ScoreUshtrime

PureSpec == PureInit /\ [][PureNext]_vars

(* ---------------- the construction heuristics on their own ---------------- *)
HeuristicInstances ==
    { Instance(q[1], q[2], Capacity,
               [e \in 0 .. 1 |-> IF e = 0 THEN Endpoint(2, q[3]) ELSE Endpoint(3, q[4])],
               q[5], default_max_iterations)
      : q \in { r \in SizeProfiles(NumVideos, Sizes, range(NumVideos)) \X (1 .. MaxCaches)
                        \X LatTables(MaxCaches) \X SecondTables \X SearchWorkloads :
                  r[3] \in SearchTables(r[2]) /\ Keys(r[4]) \subseteq range(r[2]) } }

HeuristicInit ==
    /\ inst \in HeuristicInstances \cup DistributionInstances \cup { UshtrimeInstance, Scenario }
    /\ pc = "start"
    /\ cache_servers = << >>
    /\ Blank

HeuristicNext ==
    \/ BasicPlacement
    \/ LargestFirst
    \/ EnhancedPlacement
    \/ Operator1
    \/ Operator2
    \/ ValidateSolution
    \/ ValidateSolutionUshtrime

HeuristicSpec == HeuristicInit /\ [][HeuristicNext]_vars

(* ---------------- properties ---------------- *)
NonNegativeSizes == \A v \in DOMAIN inst.video_sizes : inst.video_sizes[v] >= 0

WithinCapacity(solution) ==
    \A c \in DOMAIN solution :
        /\ total_size(solution[c].videos, inst.video_sizes, inst.V) <= inst.X
        /\ solution[c].remaining_capacity >= 0

(* a mutation operator has returned an assignment that differs from its argument *)
Moved == pc = "built" /\ passed # << >> /\ cache_servers # passed

(* C1: with non-negative video sizes, the assignment a construction        *)
(* heuristic returns, and every assignment perturb_solution and            *)
(* generate_neighbor produce from it, keeps each cache's total size <= X   *)
(* and each remaining_capacity >= 0.                                       *)
C1_CapacityInvariant ==
    (NonNegativeSizes /\ pc \in { "built", "validated", "raised" })
        => WithinCapacity(cache_servers)

(* a video was moved into a cache that it fills exactly *)
C1_Witness ==
    /\ NonNegativeSizes
    /\ Moved
    /\ \E c \in DOMAIN cache_servers :
          /\ cache_servers[c].remaining_capacity = 0
          /\ cache_servers[c].videos # passed[c].videos
          /\ cache_servers[c].videos # {}

(* C2: in every assignment a heuristic returns or a sequence of mutation   *)
(* operators produces from it, each video id is in at most one cache.      *)
C2_UniquenessInvariant ==
    pc \in { "built", "validated", "raised" } =>
        \A c1, c2 \in DOMAIN cache_servers :
            c1 # c2 => cache_servers[c1].videos \cap cache_servers[c2].videos = {}

(* two caches hold videos after a mutation that changed both *)
C2_Witness ==
    /\ Moved
    /\ \E c1, c2 \in DOMAIN cache_servers :
          /\ c1 # c2
          /\ cache_servers[c1].videos # {} /\ cache_servers[c2].videos # {}
          /\ cache_servers[c1].videos # passed[c1].videos
          /\ cache_servers[c2].videos # passed[c2].videos

(* a call of perturb_solution or generate_neighbor: the only steps that an *)
(* assignment under construction and mutation takes once it is built      *)
MutationStep == pc = "built" /\ pc' \in { "built", "raised" }

(* C10: perturb_solution and generate_neighbor leave the solution passed   *)
(* to them as it was, whether or not a move is applied; only the returned  *)
(* copy changes.                                                           *)
C10_NoInPlaceMutation ==
    [][MutationStep => passed' = cache_servers]_vars

(* the returned copy differs from the argument the call left behind *)
C10_Witness ==
    /\ Moved
    /\ \E c \in DOMAIN passed :
          passed[c].remaining_capacity # cache_servers[c].remaining_capacity

(* C3: in iterated_local_search the incumbent and best_score are replaced  *)
(* only by a candidate whose score is strictly greater, so best_score      *)
(* never decreases from one iteration to the next and a candidate of equal *)
(* or lower score leaves the incumbent as it was.                          *)
C3_MonotonicNonRegression ==
    [][SearchIteration =>
         /\ best_score' >= best_score
         /\ (current_solution' # current_solution \/ best_score' # best_score)
               => (/\ candidate_score' > best_score
                   /\ current_solution' = candidate'
                   /\ best_score' = candidate_score')
         /\ (pc' = "loop" /\ candidate_score' <= best_score)
               => UNCHANGED << current_solution, best_score >>]_vars

(* an iteration has replaced the operator_1 incumbent by a better candidate *)
C3_Witness ==
    /\ pc = "loop"
    /\ iteration >= 1
    /\ current_solution = candidate
    /\ best_score = candidate_score
    /\ current_solution # operator_1(None, inst.video_sizes,
                                     video_request_counts(inst.requests, inst.V),
                                     inst.X, inst.C)

(* the score as section 4.1 states it *)
NonNegativeCounts == \A k \in 1 .. Len(inst.requests) : inst.requests[k][3] >= 0

HolderLatencies(v, e, solution) ==
    LET lat == inst.endpoints[e].cache_latencies
    IN  { lat[k][2] : k \in { j \in 1 .. Len(lat) :
                                /\ lat[j][1] \in DOMAIN solution
                                /\ v \in solution[lat[j][1]].videos } }

SavedFor(r, solution) ==
    LET dc   == inst.endpoints[r[2]].data_center_latency
        held == HolderLatencies(r[1], r[2], solution)
        least == CHOOSE l \in held : \A m \in held : l <= m
    IN  IF held = {} THEN 0 ELSE (dc - Min2(dc, least)) * r[3]

RECURSIVE SavedUpTo(_, _)
SavedUpTo(k, solution) ==
    IF k = 0 THEN 0 ELSE SavedFor(inst.requests[k], solution) + SavedUpTo(k - 1, solution)

RECURSIVE CountUpTo(_)
CountUpTo(k) == IF k = 0 THEN 0 ELSE inst.requests[k][3] + CountUpTo(k - 1)

MainScored == pc \in { "scored_main", "scored_other", "scored" }

(* C4: with non-negative request counts calculate_score (main.py) returns  *)
(* floor(1000 * S / T), S the request-weighted savings against the least   *)
(* latency of a reachable cache holding the video, clamped to the          *)
(* datacenter latency; 0 when T = 0; 900000 for the single request         *)
(* (3, 0, 1500) with video 3 in the cache of latency 100 and dc = 1000.    *)
C4_ScorerCorrectness ==
    (MainScored /\ NonNegativeCounts) =>
        LET T == CountUpTo(Len(inst.requests))
            S == SavedUpTo(Len(inst.requests), cache_servers)
        IN  /\ T = 0 => score.main = 0
            /\ T > 0 => /\ score.main * T <= 1000 * S
                        /\ 1000 * S < (score.main + 1) * T
            /\ inst = ScenarioOneRequest => score.main = 900000

(* a scored request whose video sits in a reachable cache slower than the  *)
(* datacenter and in no faster one, next to a request that does save time  *)
C4_Witness ==
    /\ MainScored
    /\ NonNegativeCounts
    /\ score.main > 0
    /\ \E k \in 1 .. Len(inst.requests) :
          LET r == inst.requests[k]
              held == HolderLatencies(r[1], r[2], cache_servers)
          IN  /\ r[3] > 0
              /\ held # {}
              /\ \A l \in held : l > inst.endpoints[r[2]].data_center_latency

(* the feasibility invariants of section 3 *)
Infeasible(solution) ==
    \/ \E c \in DOMAIN solution : \E v \in solution[c].videos : v \notin range(inst.V)
    \/ \E c \in DOMAIN solution : c \notin range(inst.C)
    \/ \E c1, c2 \in DOMAIN solution :
          c1 # c2 /\ solution[c1].videos \cap solution[c2].videos # {}
    \/ \E c \in DOMAIN solution :
          /\ \A v \in solution[c].videos : InIndex(inst.V, v)
          /\ total_size(solution[c].videos, inst.video_sizes, inst.V) > inst.X
    \/ \E c \in DOMAIN solution : solution[c].remaining_capacity < 0

(* C5: validate_solution returns false for every assignment that violates *)
(* one of the feasibility invariants: a video id outside [0, V), a cache   *)
(* id outside [0, C), a video in two caches, a cache over capacity, a      *)
(* negative remaining_capacity.                                            *)
C5_ValidatorSoundness ==
    (pc \in { "validated", "raised" } /\ Infeasible(cache_servers))
        => (report.exc = "None" /\ ~report.valid)

NegativeSize == \E v \in DOMAIN inst.video_sizes : inst.video_sizes[v] < 0

(* C6: on an instance with a negative video size the smallest-first        *)
(* construction completes without raising and validate_solution returns    *)
(* false on its output, with the negative-size diagnostic.                 *)
C6_NegativeSizeRejection ==
    NegativeSize =>
        /\ pc # "raised"
        /\ pc # "main" => cache_servers # << >>
        /\ pc \in { "validated", "done" } =>
              /\ ~report.valid
              /\ << "Negative video size found", None >> \in report.diagnostics

(* the built-in instance of ushtrime.py, distributed and validated *)
C6_Witness ==
    /\ inst = UshtrimeInstance
    /\ pc = "validated"
    /\ cache_servers = video_distribution(inst.video_sizes, inst.V, inst.C, inst.X)
    /\ 1 \in cache_servers[0].videos
    /\ ~report.valid

(* C7: the three calculate_score copies return the same integer for every *)
(* instance and every assignment.                                          *)
C7_ScorersAgree ==
    pc = "scored" => (score.main = score.other /\ score.other = score.ushtrime)

(* the assignments one mutation operator can return for a solution *)
MutationResults(solution) ==
    { out.result : out \in
        { o \in perturb_solution(solution, inst.video_sizes, inst.C, inst.X, num_changes)
                  \cup generate_neighbor(solution, inst.video_sizes, inst.C, inst.X) :
            o.exc = "None" } }

(* C8: in every iteration of the local-search loop the candidate is the    *)
(* result of one mutation operator (perturbation or swap neighbor) applied *)
(* to a copy of the incumbent of that iteration.                           *)
C8_CandidateGeneration ==
    [][SearchIteration => candidate' \in MutationResults(current_solution)]_vars

ScoreOf(solution) ==
    calculate_score(inst.requests, inst.endpoints, solution, inst.video_sizes)

ScoreOtherOf(solution) ==
    calculate_score_other(inst.requests, inst.endpoints, solution, inst.video_sizes).value

Earlier(u, v) ==
    \/ inst.video_sizes[u] < inst.video_sizes[v]
    \/ inst.video_sizes[u] = inst.video_sizes[v] /\ u < v

(* what is left of cache c at the moment v is taken, given the outcome *)
RemainingAt(solution, c, v) ==
    inst.X - total_size({ u \in solution[c].videos : Earlier(u, v) },
                        inst.video_sizes, inst.V)

FittingCaches(solution, v) ==
    { c \in range(inst.C) : inst.video_sizes[v] <= RemainingAt(solution, c, v) }

Holders(solution, v) == { c \in DOMAIN solution : v \in solution[c].videos }

SmallestFirstFit(solution) ==
    /\ DOMAIN solution = range(inst.C)
    /\ \A v \in range(inst.V) :
          LET fit == FittingCaches(solution, v)
          IN  IF fit = {} THEN Holders(solution, v) = {}
              ELSE Holders(solution, v) = { CHOOSE c \in fit : \A d \in fit : c <= d }
    /\ \A c \in range(inst.C) :
          /\ solution[c].videos \subseteq range(inst.V)
          /\ solution[c].remaining_capacity
               = inst.X - total_size(solution[c].videos, inst.video_sizes, inst.V)

HeuristicStep == pc = "start" /\ pc' = "built"

C12_NoFailureModes ==
    (NonNegativeSizes /\ inst.C >= 1) => (exc = "None" /\ pc # "raised")

(* ---------------- multi-factor candidate selection ---------------- *)
RequestingEndpoints(v) ==
    { inst.requests[i][2] : i \in { j \in DOMAIN inst.requests : inst.requests[j][1] = v } }

Reachable(e) == Keys(inst.endpoints[e].cache_latencies)

(* u is taken before v by the stable sort on the priority key *)
PriorityEarlier(u, v) ==
    LET video_stats == preprocess_requests(inst.requests, inst.endpoints, inst.video_sizes)
    IN  \/ PriorityLess(video_stats, inst.video_sizes, u, v)
        \/ ~PriorityLess(video_stats, inst.video_sizes, v, u) /\ u < v

PriorityRemainingAt(solution, c, v) ==
    inst.X - total_size({ u \in solution[c].videos : PriorityEarlier(u, v) },
                        inst.video_sizes, inst.V)

(* the caches reachable from a requesting endpoint that still fit v *)
Candidates(solution, v) ==
    { c \in range(inst.C) :
        /\ \E e \in RequestingEndpoints(v) : c \in Reachable(e)
        /\ inst.video_sizes[v] <= PriorityRemainingAt(solution, c, v) }

(* the best (dc(e) - latency(e, c)) * total_demand over the requesting     *)
(* endpoints that reach c; the divisor, their number, is the same for all  *)
CandidateScore(c, v) ==
    LET gains == { (inst.endpoints[e].data_center_latency
                      - Get(inst.endpoints[e].cache_latencies, c))
                   * CountOf(v, inst.requests)
                   : e \in { f \in RequestingEndpoints(v) : c \in Reachable(f) } }
    IN  CHOOSE g \in gains : \A h \in gains : g >= h

MultiFactorSelection(solution) ==
    \A v \in range(inst.V) :
        LET cand == Candidates(solution, v)
        IN  IF cand = {} THEN Holders(solution, v) = {}
            ELSE \E c \in cand :
                   /\ Holders(solution, v) = { c }
                   /\ \A d \in cand :
                         \/ CandidateScore(c, v) > CandidateScore(d, v)
                         \/ /\ CandidateScore(c, v) = CandidateScore(d, v)
                            /\ PriorityRemainingAt(solution, c, v)
                                 >= PriorityRemainingAt(solution, d, v)

(* C13: for each video in priority order enhanced_cache_placement places   *)
(* the video in the fitting cache, reachable from a requesting endpoint,   *)
(* of maximum score (ties to the larger remaining_capacity), and skips the *)
(* video only when there is no such cache.                                 *)
C13_MultiFactorSelection ==
    [][(EnhancedPlacement /\ pc' = "built" /\ NonNegativeSizes)
          => MultiFactorSelection(cache_servers')]_vars

(* ---------------- demand-weighted placement ---------------- *)
(* u is taken before v by the stable descending sort on requests per size *)
DensityEarlier(u, v) ==
    LET counts == video_request_counts(inst.requests, inst.V)
    IN  \/ DensityLess(inst.video_sizes, counts, u, v)
        \/ ~DensityLess(inst.video_sizes, counts, v, u) /\ u < v

DensityRemainingAt(solution, c, v) ==
    inst.X - total_size({ u \in solution[c].videos : DensityEarlier(u, v) },
                        inst.video_sizes, inst.V)

(* sum of count * max(0, dc(e) - latency(e, c)) over the requests for v    *)
(* whose endpoint reaches c                                                *)
RECURSIVE DemandWeight(_, _, _)
DemandWeight(requests, c, v) ==
    IF requests = << >> THEN 0
    ELSE LET r == Head(requests)
             endpoint == inst.endpoints[r[2]]
         IN  (IF r[1] = v /\ c \in Keys(endpoint.cache_latencies)
              THEN r[3] * Max2(0, endpoint.data_center_latency
                                    - Get(endpoint.cache_latencies, c))
              ELSE 0)
             + DemandWeight(Tail(requests), c, v)

(* the reachable caches that still fit v *)
WeightedCandidates(solution, v) ==
    { c \in range(inst.C) :
        /\ \E e \in RequestingEndpoints(v) : c \in Reachable(e)
        /\ inst.video_sizes[v] <= DensityRemainingAt(solution, c, v) }

DemandWeighted(solution) ==
    \A v \in range(inst.V) :
        LET cand == WeightedCandidates(solution, v)
        IN  IF cand = {} THEN Holders(solution, v) = {}
            ELSE \E c \in cand :
                   /\ Holders(solution, v) = { c }
                   /\ \A d \in cand :
                         DemandWeight(inst.requests, c, v)
                           >= DemandWeight(inst.requests, d, v)

(* C14: for each video operator_2 weighs every cache reachable from a      *)
(* requesting endpoint by the sum of count * max(0, dc - latency), tries   *)
(* them in descending weight order and places the video in the first that  *)
(* fits; the video stays unassigned only if no reachable cache fits it.    *)
C14_DemandWeighted ==
    [][(Operator2 /\ NonNegativeSizes /\ NonNegativeCounts)
          => DemandWeighted(cache_servers')]_vars

(* ---------------- the degenerate local search ---------------- *)
FirstSolution ==
    operator_1(None, inst.video_sizes, video_request_counts(inst.requests, inst.V),
               inst.X, inst.C)

OnlyCandidate ==
    operator_2(None, inst.requests, inst.endpoints, inst.video_sizes,
               video_request_counts(inst.requests, inst.V), inst.X, inst.C)

(* what iterated_local_search is said to return *)
DegenerateResult ==
    IF ScoreOtherOf(OnlyCandidate) > ScoreOtherOf(FirstSolution)
    THEN OnlyCandidate ELSE FirstSolution

InSearch == pc \in { "loop", "returned" } /\ inst.max_iterations >= 1

(* C15: with max_iterations >= 1 every candidate of iterated_local_search  *)
(* is the one operator_2 assignment, the incumbent changes in the first    *)
(* iteration or never, the function returns operator_2's assignment if it  *)
(* scores strictly higher than operator_1's and operator_1's otherwise,    *)
(* with best_score the score of what it returns and the larger of the two  *)
(* scores; each pass of the loop counts one iteration and the function    *)
(* returns after exactly max_iterations of them.                           *)
C15_DegenerateSearch ==
    /\ [][(SearchIteration /\ iteration >= 1)
             => UNCHANGED << current_solution, best_score >>]_vars
    /\ []((InSearch /\ iteration >= 1) =>
             /\ candidate = OnlyCandidate
             /\ current_solution = DegenerateResult
             /\ best_score = ScoreOtherOf(current_solution)
             /\ best_score = Max2(ScoreOtherOf(FirstSolution), ScoreOtherOf(OnlyCandidate)))
    /\ []((InSearch /\ pc = "returned") =>
             /\ iteration = inst.max_iterations
             /\ cache_servers = DegenerateResult)
    /\ []((InSearch /\ pc = "loop") => iteration <= inst.max_iterations)
    /\ [][SearchIteration => (pc' = "loop" /\ iteration' = iteration + 1)]_vars

(* the search has returned operator_2's assignment, accepted in the first  *)
(* of several iterations                                                   *)
C15_Witness ==
    /\ pc = "returned"
    /\ iteration >= 2
    /\ cache_servers = OnlyCandidate
    /\ cache_servers # FirstSolution
    /\ best_score > ScoreOtherOf(FirstSolution)

====
